---- MODULE Spec2Model ----
(***************************************************************************)
(* A model of webview10k: the Document Indexer (get_pdf_info), the Section *)
(* Segmenter (process_pdf), the Financial Table Extractor                  *)
(* (extract_table, get_finance_tables) and the upload / query handlers     *)
(* that drive them.                                                        *)
(*                                                                         *)
(* Text is modelled below the level of Python strings but above single     *)
(* characters:                                                             *)
(*   piece  a string that the regular expressions of the code treat as a   *)
(*          unit ("Item", "1A", ".", "**", one digit, ...)                 *)
(*   token  a sequence of pieces with no whitespace between them           *)
(*   line   a sequence of tokens; consecutive tokens are separated by one  *)
(*          space, unless the token GAP (two or more spaces) stands        *)
(*          between them; SP as first token is leading whitespace          *)
(*   page   a sequence of lines (the block create_text_by_page builds for  *)
(*          one page); <<>> is a page without spans                        *)
(*   doc    a sequence of pages; page number n of the code is doc[n + 1]   *)
(***************************************************************************)
EXTENDS Integers, Sequences, FiniteSets, TLC

(***************************************************************************)
(* Generic sequence helpers.                                               *)
(***************************************************************************)
Range(s) == {s[i] : i \in DOMAIN s}

Last(s) == s[Len(s)]

RECURSIVE Concat(_)
Concat(ss) == IF ss = <<>> THEN <<>> ELSE Head(ss) \o Concat(Tail(ss))

Min(a, b) == IF a <= b THEN a ELSE b

(***************************************************************************)
(* Special tokens and character classes.                                   *)
(***************************************************************************)
SP == <<" ">>

GAP == <<"  ">>

NL == <<"\n">>

BOLD == "**"

Digits == {"0", "1", "2", "3", "4", "5", "6", "7", "8", "9"}

DigitVal(c) ==
    CASE c = "0" -> 0 [] c = "1" -> 1 [] c = "2" -> 2 [] c = "3" -> 3
      [] c = "4" -> 4 [] c = "5" -> 5 [] c = "6" -> 6 [] c = "7" -> 7
      [] c = "8" -> 8 [] c = "9" -> 9

IsWs(tok) == tok \in {SP, GAP, NL}

\* str.isdigit() of a token: non-empty and digits only.
IsDigits(tok) == tok # <<>> /\ \A i \in DOMAIN tok : tok[i] \in Digits

\* int(s) of a digit string.
RECURSIVE IntOf(_)
IntOf(tok) ==
    IF tok = <<>> THEN 0
    ELSE 10 * IntOf(SubSeq(tok, 1, Len(tok) - 1)) + DigitVal(Last(tok))

(***************************************************************************)
(* str.replace("**", " ") on a line (get_pdf_info, line 87).  The line is  *)
(* spelled out piece by piece with its spaces, every bold marker becomes a *)
(* space, and the result is cut into tokens again: a marker next to a      *)
(* space leaves two spaces (GAP), a marker at the head of the line leaves  *)
(* leading whitespace (SP).                                                *)
(***************************************************************************)
RECURSIVE LineChars(_, _)
LineChars(line, prevOrd) ==
    IF line = <<>> THEN <<>>
    ELSE LET t == Head(line) IN
         IF t = SP THEN <<" ">> \o LineChars(Tail(line), FALSE)
         ELSE IF t = GAP THEN <<" ", " ">> \o LineChars(Tail(line), FALSE)
         ELSE (IF prevOrd THEN <<" ">> ELSE <<>>) \o t
              \o LineChars(Tail(line), TRUE)

RECURSIVE Tokenize(_, _, _, _)
Tokenize(chars, cur, spaces, out) ==
    IF chars = <<>> THEN (IF cur = <<>> THEN out ELSE Append(out, cur))
    ELSE LET c == Head(chars) IN
         IF c = " "
         THEN Tokenize(Tail(chars), <<>>, spaces + 1,
                       IF cur = <<>> THEN out ELSE Append(out, cur))
         ELSE IF cur = <<>> /\ spaces > 0
              THEN Tokenize(Tail(chars), <<c>>, 0,
                            IF out = <<>> THEN <<SP>>
                            ELSE IF spaces >= 2 THEN Append(out, GAP)
                            ELSE out)
              ELSE Tokenize(Tail(chars), Append(cur, c), 0, out)

ReplaceBold(line) ==
    LET chars == LineChars(line, FALSE)
        repl  == [i \in DOMAIN chars |-> IF chars[i] = BOLD THEN " " ELSE chars[i]]
    IN  Tokenize(repl, <<>>, 0, <<>>)

\* str.strip() of a line: leading whitespace dropped (Tokenize keeps none
\* at the end).
Strip(line) ==
    IF line # <<>> /\ Head(line) \in {SP, GAP} THEN Tail(line) ELSE line

(***************************************************************************)
(* clean_text (lines 370-390): drops the lines that hold digits and spaces *)
(* only and the lines that read "Table of Contents".  A block is a         *)
(* sequence of lines; the empty string is the block of one empty line.     *)
(***************************************************************************)
TableOfContents == << <<"Table">>, <<"of">>, <<"Contents">> >>

OnlyDigits(line) ==
    LET ords == SelectSeq(line, LAMBDA t : ~IsWs(t))
    IN  ords # <<>> /\ \A i \in DOMAIN ords : IsDigits(ords[i])

KeptByClean(line) == ~OnlyDigits(line) /\ Strip(line) # TableOfContents

clean_text(block) ==
    LET kept == SelectSeq(block, KeptByClean)
    IN  IF kept = <<>> THEN << <<>> >> ELSE kept

(***************************************************************************)
(* get_page_texts (lines 393-422).  The three assertions decide whether    *)
(* the range can be read; create_text_by_page yields one block per page    *)
(* that has spans, each block is cleaned, and the blocks are joined with   *)
(* a line break.                                                           *)
(***************************************************************************)
PageRangeOk(doc, start_idx, end_idx) ==
    /\ start_idx < end_idx
    /\ start_idx >= 0
    /\ end_idx <= Len(doc)

get_page_texts(doc, start_idx, end_idx) ==
    LET blocks == SelectSeq(SubSeq(doc, start_idx + 1, end_idx),
                            LAMBDA pg : pg # <<>>)  \* create_text_by_page
        joined == Concat([i \in DOMAIN blocks |-> clean_text(blocks[i])])
    IN  IF joined = <<>> THEN << <<>> >> ELSE joined

(***************************************************************************)
(* Document Indexer: get_pdf_info (lines 61-167).                          *)
(***************************************************************************)
\* range(min(10, length)), line 86
IndexScanLimit == 10

Upper == {"A", "B", "C"}

\* pieces that begin with the letter I (the substring test "PART I" only
\* sees the first letter of what follows "PART ")
IStart == {"I", "II", "III", "IV", "Item", "ITEM"}

\* pieces that begin with one of the characters of the class [I|V]
PartStart == IStart \cup {"V", "VI"}

Months == {"December", "January", "June", "DECEMBER"}

\* "PART I" in text, line 88
ContainsPartI(line) ==
    \E i \in 1..(Len(line) - 1) :
        /\ ~IsWs(line[i]) /\ Last(line[i]) = "PART"
        /\ ~IsWs(line[i + 1]) /\ line[i + 1][1] \in IStart

\* "Item 1." in text, line 88
ContainsItem1(line) ==
    \E i \in 1..(Len(line) - 1) :
        /\ ~IsWs(line[i]) /\ Last(line[i]) = "Item"
        /\ Len(line[i + 1]) >= 2
        /\ line[i + 1][1] = "1" /\ line[i + 1][2] = "."

\* the text of page page_num as get_pdf_info reads it (line 87), in lines
IndexPageText(doc, page_num) ==
    LET t == get_page_texts(doc, page_num, page_num + 1)
    IN  [i \in DOMAIN t |-> ReplaceBold(t[i])]

IsIndexPage(text) ==
    /\ \E i \in DOMAIN text : ContainsPartI(text[i])
    /\ \E i \in DOMAIN text : ContainsItem1(text[i])

\* the scan taking the last page that qualifies
FindIndexPageLast(doc) ==
    LET scanned == 0..(Min(IndexScanLimit, Len(doc)) - 1)
        hits == {n \in scanned : IsIndexPage(IndexPageText(doc, n))}
    IN  IF hits = {} THEN -1
        ELSE CHOOSE n \in hits : \A m \in hits : n >= m

\* the page the loop of lines 86-108 breaks on, or -1
FindIndexPage(doc) ==
    LET scanned == 0..(Min(IndexScanLimit, Len(doc)) - 1)
        hits == {n \in scanned : IsIndexPage(IndexPageText(doc, n))}
    IN  IF hits = {} THEN -1
        ELSE CHOOSE n \in hits : \A m \in hits : n <= m

\* fiscal_year_patterns[0] at token position i of a text without line
\* structure: [For] [the] [Fiscal] Year Ended <Month> <d>[,] <yyyy>,
\* matched case-insensitively; the other two patterns match nothing the
\* first does not.
LowerOf(p) ==
    CASE p \in {"For", "FOR", "for"} -> "for"
      [] p \in {"the", "THE", "The"} -> "the"
      [] p \in {"Fiscal", "FISCAL", "fiscal"} -> "fiscal"
      [] p \in {"Year", "YEAR", "year"} -> "year"
      [] p \in {"Ended", "ENDED", "ended"} -> "ended"
      [] OTHER -> p

IsWord(tok, w) == Len(tok) = 1 /\ LowerOf(tok[1]) = w

IsDay(tok) ==
    \/ Len(tok) \in {1, 2} /\ IsDigits(tok)
    \/ /\ Len(tok) \in {2, 3} /\ Last(tok) = ","
       /\ IsDigits(SubSeq(tok, 1, Len(tok) - 1))

YearEndedAt(ws, i) ==
    /\ i + 4 <= Len(ws)
    /\ IsWord(ws[i], "year") /\ IsWord(ws[i + 1], "ended")
    /\ Len(ws[i + 2]) = 1 /\ ws[i + 2][1] \in Months
    /\ IsDay(ws[i + 3])
    /\ Len(ws[i + 4]) >= 4 /\ IsDigits(SubSeq(ws[i + 4], 1, 4))

\* how many of the optional words For, the, Fiscal start at i
OptPrefix(ws, i) ==
    LET f == IF i <= Len(ws) /\ IsWord(ws[i], "for") THEN 1 ELSE 0
        t == IF i + f <= Len(ws) /\ IsWord(ws[i + f], "the") THEN 1 ELSE 0
        c == IF i + f + t <= Len(ws) /\ IsWord(ws[i + f + t], "fiscal")
             THEN 1 ELSE 0
    IN  f + t + c

\* lines 91-107: the leftmost match, or <<>> for None.  An optional word
\* that is present is always consumed (the word after it is never "Year").
FiscalYearDate(text) ==
    LET ws == SelectSeq(Concat(text), LAMBDA t : ~IsWs(t))
        starts == {i \in DOMAIN ws : YearEndedAt(ws, i + OptPrefix(ws, i))}
    IN  IF starts = {} THEN <<>>
        ELSE LET i == CHOOSE a \in starts : \A b \in starts : a <= b
                 j == i + OptPrefix(ws, i)
             IN  SubSeq(ws, i, j + 3) \o << SubSeq(ws[j + 4], 1, 4) >>

\* current_part before any PART line: None
NoPart == <<>>

\* re.match(r"^PART [I|V]+", line), line 121: on the line as it stands,
\* leading whitespace included
IsPartLine(line) ==
    /\ Len(line) >= 2
    /\ line[1] = <<"PART">>
    /\ ~IsWs(line[2]) /\ line[2][1] \in PartStart

\* number of digit pieces a token starts with
RECURSIVE DigitPrefixLen(_)
DigitPrefixLen(tok) ==
    IF tok # <<>> /\ Head(tok) \in Digits THEN 1 + DigitPrefixLen(Tail(tok))
    ELSE 0

\* length of the (\d+[A-Z]?) group a token starts with when a period
\* follows it, else 0
ItemNumLen(tok) ==
    LET d == DigitPrefixLen(tok)
        u == IF d < Len(tok) /\ tok[d + 1] \in Upper THEN 1 ELSE 0
    IN  IF d >= 1 /\ d + u < Len(tok) /\ tok[d + u + 1] = "." THEN d + u
        ELSE 0

RECURSIVE StripGaps(_)
StripGaps(toks) ==
    IF toks # <<>> /\ Head(toks) = GAP THEN StripGaps(Tail(toks))
    ELSE IF toks # <<>> /\ Last(toks) = GAP
         THEN StripGaps(SubSeq(toks, 1, Len(toks) - 1))
         ELSE toks

\* the match of line 126 made case-insensitive
IsItemLineAnyCase(line) ==
    LET s == Strip(line) IN
    /\ Len(s) >= 3
    /\ s[1] \in {<<"Item">>, <<"ITEM">>}
    /\ ~IsWs(s[2]) /\ ItemNumLen(s[2]) > 0
    /\ IsDigits(Last(s))

\* re.match(r"\s*Item (\d+[A-Z]?)\.\s*(.*?)\s+(\d+)\s*$", line.strip()),
\* line 126
IsItemLine(line) ==
    LET s == Strip(line) IN
    /\ Len(s) >= 3
    /\ s[1] = <<"Item">>
    /\ ~IsWs(s[2]) /\ ItemNumLen(s[2]) > 0
    /\ IsDigits(Last(s))

\* item_num, description.strip() and int(page) of a matching line,
\* lines 128-132
ItemKey(line) == LET t == Strip(line)[2] IN SubSeq(t, 1, ItemNumLen(t))

ItemDescription(line) ==
    LET s == Strip(line)
        t == s[2]
        glued == SubSeq(t, ItemNumLen(t) + 2, Len(t))
    IN  StripGaps((IF glued = <<>> THEN <<>> ELSE <<glued>>)
                  \o SubSeq(s, 3, Len(s) - 1))

ItemPage(line) == IntOf(Last(Strip(line)))

(***************************************************************************)
(* index_dict: a Python dict, modelled as the insertion order of its keys  *)
(* and the mapping from key to entry.                                      *)
(***************************************************************************)
EmptyDict == [order |-> <<>>, ent |-> <<>>]

DictSet(d, key, val) ==
    [order |-> IF key \in DOMAIN d.ent THEN d.order ELSE Append(d.order, key),
     ent   |-> [k \in DOMAIN d.ent \cup {key} |->
                  IF k = key THEN val ELSE d.ent[k]]]

\* the entry of lines 130-135
NewEntry(line, current_part) ==
    [description |-> ItemDescription(line),
     start_page  |-> ItemPage(line),
     end_page    |-> ItemPage(line),
     part        |-> current_part]

\* one pass of the loop body of lines 119-135 over st = the dict and the
\* current part
ParseLine(st, line) ==
    IF IsPartLine(line)
    THEN [st EXCEPT !.current_part = Strip(line)]
    ELSE IF IsItemLine(line)
         THEN [st EXCEPT !.index_dict =
                  DictSet(@, ItemKey(line), NewEntry(line, st.current_part))]
         ELSE st

RECURSIVE ParseLines(_, _)
ParseLines(st, lines) ==
    IF lines = <<>> THEN st
    ELSE ParseLines(ParseLine(st, Head(lines)), Tail(lines))

ParseIndex(text) ==
    ParseLines([index_dict |-> EmptyDict, current_part |-> NoPart], text).index_dict

\* sorted(index_dict.items(), key=start_page), line 138: a stable sort of
\* the insertion order
RECURSIVE InsertByStart(_, _, _)
InsertByStart(ent, key, sorted) ==
    IF sorted = <<>> THEN <<key>>
    ELSE IF ent[Head(sorted)].start_page <= ent[key].start_page
         THEN <<Head(sorted)>> \o InsertByStart(ent, key, Tail(sorted))
         ELSE <<key>> \o sorted

RECURSIVE SortByStart(_, _)
SortByStart(ent, order) ==
    IF order = <<>> THEN <<>>
    ELSE InsertByStart(ent, Last(order),
                       SortByStart(ent, SubSeq(order, 1, Len(order) - 1)))

\* the loop body with the same-part overlap dropped
AdjustPairNoOverlap(ent, items, i) ==
    LET current_item  == items[i]
        next_item     == items[i + 1]
        current_start == ent[current_item].start_page
        next_start    == ent[next_item].start_page
    IN  IF next_start > current_start
        THEN [ent EXCEPT ![current_item].end_page = next_start - 1]
        ELSE ent

\* the loop body with the cross-part guard of line 151 dropped
AdjustPairAlwaysTrim(ent, items, i) ==
    LET current_item  == items[i]
        next_item     == items[i + 1]
        current_start == ent[current_item].start_page
        next_start    == ent[next_item].start_page
    IN  IF ent[current_item].part = ent[next_item].part
        THEN IF next_start > current_start
             THEN [ent EXCEPT ![current_item].end_page = next_start]
             ELSE ent
        ELSE [ent EXCEPT ![current_item].end_page = next_start - 1]

\* the loop body of lines 140-152 for the pair items[i], items[i + 1]
\* (i counts from 1 here)
AdjustPair(ent, items, i) ==
    LET current_item  == items[i]
        next_item     == items[i + 1]
        current_start == ent[current_item].start_page
        next_start    == ent[next_item].start_page
    IN  IF ent[current_item].part = ent[next_item].part
        THEN IF next_start > current_start
             THEN [ent EXCEPT ![current_item].end_page = next_start]
             ELSE ent
        ELSE IF next_start > current_start
             THEN [ent EXCEPT ![current_item].end_page = next_start - 1]
             ELSE ent

RECURSIVE AdjustFrom(_, _, _)
AdjustFrom(ent, items, i) ==
    IF i >= Len(items) THEN ent
    ELSE AdjustFrom(AdjustPair(ent, items, i), items, i + 1)

\* lines 137-152
CalcEndPages(d) ==
    [d EXCEPT !.ent = AdjustFrom(d.ent, SortByStart(d.ent, d.order), 1)]

\* get_pdf_info as a whole: the exception of line 111, or the pdf_info
\* that is saved and returned (file_name is the same for every call and
\* is left out)
NoInfo == [raised |-> TRUE]

get_pdf_info(doc) ==
    LET n == FindIndexPage(doc) IN
    IF n = -1 THEN NoInfo
    ELSE LET text == IndexPageText(doc, n) IN
         [raised |-> FALSE,
          index  |-> CalcEndPages(ParseIndex(text)),
          fiscal_year_date |-> FiscalYearDate(text),
          length |-> Len(doc)]

(***************************************************************************)
(* Section Segmenter: the loop body of process_pdf (lines 210-241).  The   *)
(* text of a page window is searched as one string: the lines joined by    *)
(* line breaks (NL).                                                       *)
(***************************************************************************)
RECURSIVE FlatLines(_)
FlatLines(lines) ==
    IF lines = <<>> THEN <<>>
    ELSE IF Len(lines) = 1 THEN Head(lines)
    ELSE Head(lines) \o <<NL>> \o FlatLines(Tail(lines))

\* token i ends with the bold marker and ITEM
EndsBoldItem(text, i) ==
    /\ Len(text[i]) >= 2
    /\ text[i][Len(text[i]) - 1] = BOLD
    /\ Last(text[i]) = "ITEM"

IsPrefix(p, tok) == Len(p) <= Len(tok) /\ SubSeq(tok, 1, Len(p)) = p

\* start_pattern = "\*\*" + item.upper() + "\." matches where token i ends
\* (line 220); key is the item number of the item key
StartHeadingAt(text, i, key) ==
    /\ i + 1 <= Len(text)
    /\ EndsBoldItem(text, i)
    /\ ~IsWs(text[i + 1])
    /\ IsPrefix(key \o <<".">>, text[i + 1])

\* next_item_pattern = r"\*\*ITEM \d+[A-Z]?\." matches where token i ends
\* (line 225)
ItemHeadingAt(text, i) ==
    /\ i + 1 <= Len(text)
    /\ EndsBoldItem(text, i)
    /\ ~IsWs(text[i + 1])
    /\ ItemNumLen(text[i + 1]) > 0

LeastOf(S) == CHOOSE n \in S : \A m \in S : n <= m

\* the part of token i from its bold marker on, and the part before it
FromBold(tok) == SubSeq(tok, Len(tok) - 1, Len(tok))

BeforeBold(tok) == SubSeq(tok, 1, Len(tok) - 2)

\* the slice with the first following heading taken as the end
SectionSlice(text, key) ==
    LET starts == {i \in DOMAIN text : StartHeadingAt(text, i, key)}
        i      == LeastOf(starts)
        \* a following heading starts after the period of the start match
        nexts  == {j \in (i + 1)..Len(text) :
                     /\ ItemHeadingAt(text, j)
                     /\ j > i + 1 \/ Len(text[j]) >= Len(key) + 3}
        j      == LeastOf(nexts)
    IN  IF starts = {} THEN [found |-> FALSE]
        ELSE [found |-> TRUE,
              text  |-> IF nexts = {}
                        THEN <<FromBold(text[i])>> \o SubSeq(text, i + 1, Len(text))
                        ELSE <<FromBold(text[i])>> \o SubSeq(text, i + 1, j - 1)
                             \o (IF BeforeBold(text[j]) = <<>> THEN <<>>
                                 ELSE <<BeforeBold(text[j])>>)]

\* the zero-based page window of an entry, lines 211-212
WindowStart(details) == details.start_page + 1

\* the window without the page behind end_page
WindowEndNoOverlap(details) == details.end_page + 1

WindowEnd(details) == details.end_page + 2

(***************************************************************************)
(* The full text of lines 246-248: the page blocks of the whole document   *)
(* joined by the page-break delimiter (PB).  Pages without spans give no   *)
(* block.                                                                  *)
(***************************************************************************)
PB == <<"\n\n======= Page Break =======\n\n">>

RECURSIVE JoinBlocks(_)
JoinBlocks(blocks) ==
    IF blocks = <<>> THEN <<>>
    ELSE IF Len(blocks) = 1 THEN FlatLines(Head(blocks))
    ELSE FlatLines(Head(blocks)) \o <<PB>> \o JoinBlocks(Tail(blocks))

create_text_by_page(pages) == SelectSeq(pages, LAMBDA pg : pg # <<>>)

FullText(doc) == JoinBlocks(create_text_by_page(doc))

(***************************************************************************)
(* Financial Table Extractor: extract_table (lines 426-469).  Its          *)
(* argument is one string, here the tokens of the page with NL between     *)
(* the lines.                                                              *)
(***************************************************************************)
\* the lines of a text, str.split("\n")
RECURSIVE SplitLines(_, _)
SplitLines(text, cur) ==
    IF text = <<>> THEN <<cur>>
    ELSE IF Head(text) = NL THEN <<cur>> \o SplitLines(Tail(text), <<>>)
    ELSE SplitLines(Tail(text), Append(cur, Head(text)))

\* text.replace("$", " "), line 438
ReplaceDollar(text) ==
    LET lines == SplitLines(text, <<>>)
        repl(line) ==
            LET chars == LineChars(line, FALSE)
            IN  Tokenize([i \in DOMAIN chars |->
                            IF chars[i] = "$" THEN " " ELSE chars[i]],
                         <<>>, 0, <<>>)
    IN  FlatLines([i \in DOMAIN lines |-> repl(lines[i])])

\* unit_pattern = r"\((.*?)\)", lines 441-443: the first parenthesis that
\* is closed on its line, read to the first closing one
UnknownUnit == <<"Unknown unit">>

UnitOfLine(line) ==
    LET chars  == LineChars(line, FALSE)
        opens  == {i \in DOMAIN chars :
                     chars[i] = "(" /\ \E j \in (i + 1)..Len(chars) : chars[j] = ")"}
        i      == LeastOf(opens)
        j      == LeastOf({k \in (i + 1)..Len(chars) : chars[k] = ")"})
    IN  IF opens = {} THEN [found |-> FALSE]
        ELSE [found |-> TRUE, unit |-> SubSeq(chars, i + 1, j - 1)]

UnitOf(table_text) ==
    LET lines == SplitLines(table_text, <<>>)
        hits  == {i \in DOMAIN lines : UnitOfLine(lines[i]).found}
    IN  IF hits = {} THEN UnknownUnit ELSE UnitOfLine(lines[LeastOf(hits)]).unit

\* year_pattern = r"\*\*(\d{4})\*\*", lines 446-447, on the pieces of one
\* token from piece p on
RECURSIVE YearsInToken(_, _)
YearsInToken(tok, p) ==
    IF p + 5 > Len(tok) THEN <<>>
    ELSE IF /\ tok[p] = BOLD /\ tok[p + 5] = BOLD
            /\ \A i \in (p + 1)..(p + 4) : tok[i] \in Digits
         THEN <<SubSeq(tok, p + 1, p + 4)>> \o YearsInToken(tok, p + 6)
         ELSE YearsInToken(tok, p + 1)

YearsOf(table_text) ==
    Concat([i \in DOMAIN table_text |-> YearsInToken(table_text[i], 1)])

\* the character class [\d,()\-]
NumChars == Digits \cup {",", "(", ")", "-"}

NumClass(tok) == tok # <<>> /\ \A i \in DOMAIN tok : tok[i] \in NumChars

\* first position from p on that holds no whitespace (Len + 1 if none)
RECURSIVE SkipWs(_, _)
SkipWs(text, p) ==
    IF p <= Len(text) /\ IsWs(text[p]) THEN SkipWs(text, p + 1) ELSE p

AtEol(text, p) == p > Len(text) \/ text[p] = NL

\* end of the line that starts at s: the position of its NL, or Len + 1
RECURSIVE LineEnd(_, _)
LineEnd(text, s) ==
    IF s > Len(text) \/ text[s] = NL THEN s ELSE LineEnd(text, s + 1)

\* row_pattern (line 450) with group 1 = tokens s..j-1: the positions of
\* groups 2, 3 and 4 (0: group 4 is empty), or no match
RowGroups(text, s, j) ==
    LET g2 == SkipWs(text, j)
        g3 == SkipWs(text, g2 + 1)
        g4 == SkipWs(text, g3 + 1)
        wsAfterG1 == \/ j <= Len(text) /\ IsWs(text[j])
                     \/ j > s /\ j <= Len(text) /\ ~IsWs(text[j - 1])
    IN  IF /\ wsAfterG1
           /\ g2 <= Len(text) /\ NumClass(text[g2])
           /\ g3 <= Len(text) /\ NumClass(text[g3])
        THEN IF g4 <= Len(text) /\ NumClass(text[g4]) /\ AtEol(text, g4 + 1)
             THEN [ok |-> TRUE, g2 |-> g2, g3 |-> g3, g4 |-> g4, last |-> g4]
             ELSE IF \E q \in (g3 + 1)..g4 : AtEol(text, q)
                  THEN [ok |-> TRUE, g2 |-> g2, g3 |-> g3, g4 |-> 0, last |-> g3]
                  ELSE [ok |-> FALSE]
        ELSE [ok |-> FALSE]

\* the match with group 1 = tokens s..j-1 and the groups g of RowGroups
RowRecord(text, s, j, g) ==
    [ok |-> TRUE,
     category |-> SelectSeq(SubSeq(text, s, j - 1), LAMBDA t : t # SP),
     groups |-> <<text[g.g2], text[g.g3]>>
                \o (IF g.g4 = 0 THEN <<>> ELSE <<text[g.g4]>>),
     last |-> g.last]

\* group 1 is lazy: the match with the shortest group 1 of the ends js
RowMatchOf(text, s, js) ==
    IF js = {} THEN [ok |-> FALSE]
    ELSE RowRecord(text, s, LeastOf(js), RowGroups(text, s, LeastOf(js)))

\* the match of row_pattern that starts at line start s
RowMatchAt(text, s) ==
    RowMatchOf(text, s, {j \in s..LineEnd(text, s) : RowGroups(text, s, j).ok})

\* re.findall(row_pattern, table_text, re.MULTILINE), line 451, from
\* position from on: the match at the first line start that has one, then
\* the matches behind its end
RECURSIVE RowMatches(_, _)
RowsAfter(text, m) == <<m>> \o RowMatches(text, m.last + 1)

RowsFrom(text, hits) ==
    IF hits = {} THEN <<>> ELSE RowsAfter(text, RowMatchAt(text, LeastOf(hits)))

RowMatches(text, from) ==
    RowsFrom(text, {s \in from..Len(text) :
                      /\ s = 1 \/ text[s - 1] = NL
                      /\ RowMatchAt(text, s).ok})

\* the string handed to float() in line 466: separators dropped, an
\* opening parenthesis turned into a minus sign, a closing one dropped
RECURSIVE CleanNumber(_)
CleanNumber(tok) ==
    IF tok = <<>> THEN <<>>
    ELSE LET c == Head(tok) IN
         (IF c = "," \/ c = ")" THEN <<>>
          ELSE IF c = "(" THEN <<"-">> ELSE <<c>>) \o CleanNumber(Tail(tok))

\* float(value) raises ValueError unless the string is digits with at most
\* one sign in front
FloatOk(str) ==
    \/ IsDigits(str)
    \/ Len(str) >= 2 /\ str[1] = "-" /\ IsDigits(Tail(str))

FloatOf(str) == IF str[1] = "-" THEN 0 - IntOf(Tail(str)) ELSE IntOf(str)

NaN == [nan |-> TRUE, v |-> 0]

Num(n) == [nan |-> FALSE, v |-> n]

CategoryKey == <<"Category">>

\* the exception that leaves a function
Raised(what) == [raised |-> TRUE, error |-> what]

\* lines 453-469 for the unit, the years and the row matches found: (df,
\* unit), or the exception.  df is kept as its columns and its rows;
\* pd.DataFrame pads short rows with NaN and raises ValueError when the
\* widest row and the columns differ in length.
BuildTable(unit, years, matches) ==
    LET \* len(matches[0]) is 4, whatever the line: one string per group
        columns == <<CategoryKey>> \o SubSeq(years, 1, Min(Len(years), 4 - 1))
        values(m) == [i \in DOMAIN m.groups |-> CleanNumber(m.groups[i])]
        badfloat == \E r \in DOMAIN matches :
                       \E i \in DOMAIN matches[r].groups :
                          ~FloatOk(values(matches[r])[i])
        width   == LeastOf({w \in 3..4 : \A r \in DOMAIN matches :
                               1 + Len(matches[r].groups) <= w})
        row(m)  == [category |-> m.category,
                    cells |-> [i \in 1..(Len(columns) - 1) |->
                                 IF i <= Len(m.groups)
                                 THEN Num(FloatOf(values(m)[i])) ELSE NaN]]
    IN  IF matches = <<>> THEN Raised("IndexError")
        ELSE IF badfloat THEN Raised("ValueError: float")
        ELSE IF width # Len(columns) THEN Raised("ValueError: columns")
        ELSE [raised |-> FALSE,
              unit |-> unit,
              columns |-> columns,
              rows |-> [r \in DOMAIN matches |-> row(matches[r])]]

\* extract_table: lines 438-451 find the unit, the years and the rows in
\* table_text
extract_table(text) ==
    BuildTable(UnitOf(ReplaceDollar(text)),
               YearsOf(ReplaceDollar(text)),
               RowMatches(ReplaceDollar(text), 1))

(***************************************************************************)
(* Financial Table Extractor: get_finance_tables (lines 472-520).  Its     *)
(* input is the content of 10k_full_text.txt as one token sequence with    *)
(* NL between lines and PB between page blocks.                            *)
(***************************************************************************)
StatementNames ==
    << <<"Balance", "Sheets">>,
       <<"Statements", "of", "Operations", "and", "Comprehensive", "Loss">>,
       <<"Statements", "of", "Cash", "Flows">> >>

\* the name begins with the last piece of token i and ends with the first
\* piece of token i + Len(name) - 1; after re.sub(r"\s+", " ", ...) one
\* space stands between any two tokens
NameAt(ws, i, name) ==
    LET n == Len(name) IN
    /\ i + n - 1 <= Len(ws)
    /\ Last(ws[i]) = name[1]
    /\ \A m \in 2..(n - 1) : ws[i + m - 1] = <<name[m]>>
    /\ ws[i + n - 1][1] = name[n]

\* F-\d+ in a token from piece p on: the position of "F-", 0 if none
FRefPos(tok, p) ==
    LET hits == {q \in p..(Len(tok) - 1) : tok[q] = "F-" /\ tok[q + 1] \in Digits}
    IN  IF hits = {} THEN 0 ELSE LeastOf(hits)

\* the text F-\d+ matches at position q of the token
FRefText(tok, q) ==
    LET stops == {e \in (q + 1)..Len(tok) :
                    \A m \in (q + 1)..e : tok[m] \in Digits}
    IN  SubSeq(tok, q, CHOOSE e \in stops : \A f \in stops : f <= e)

\* re.findall(pattern, cleaned_text), line 496, from token from on
RECURSIVE StatementMatches(_, _)
StatementMatches(ws, from) ==
    LET hits == {i \in from..Len(ws) :
                   \E k \in DOMAIN StatementNames : NameAt(ws, i, StatementNames[k])}
        i    == LeastOf(hits)
        name == StatementNames[LeastOf({k \in DOMAIN StatementNames :
                                          NameAt(ws, i, StatementNames[k])})]
        endt == i + Len(name) - 1
        refs == {j \in endt..Len(ws) :
                   FRefPos(ws[j], IF j = endt THEN 2 ELSE 1) # 0}
        j    == LeastOf(refs)
    IN  IF hits = {} \/ refs = {} THEN <<>>
        ELSE <<[Statement |-> name,
                Page |-> FRefText(ws[j], FRefPos(ws[j], IF j = endt THEN 2 ELSE 1))]>>
             \o StatementMatches(ws, j)

\* DataFrame.drop_duplicates(), line 501: first occurrences, in order
RECURSIVE DropDuplicates(_)
DropDuplicates(rows) ==
    IF rows = <<>> THEN <<>>
    ELSE LET init == DropDuplicates(SubSeq(rows, 1, Len(rows) - 1))
         IN  IF Last(rows) \in Range(init) THEN init ELSE Append(init, Last(rows))

\* a page break that is no cut stays in the page as text: two line
\* breaks, the line "======= Page Break =======", two line breaks
PBText ==
    <<NL, NL, <<"=======">>, <<"Page">>, <<"Break">>, <<"=======">>, NL, NL>>

\* str.split("\n\n======= Page Break =======\n\n "), line 498: the
\* delimiter is the page break and one space, so a break is a cut only
\* where leading whitespace follows it, and the cut takes one space
RECURSIVE SplitPages(_, _)
SplitPages(text, cur) ==
    IF text = <<>> THEN <<cur>>
    ELSE IF Head(text) = PB /\ Len(text) >= 2 /\ text[2] \in {SP, GAP}
         THEN <<cur>> \o SplitPages((IF text[2] = GAP THEN <<SP>> ELSE <<>>)
                                    \o SubSeq(text, 3, Len(text)), <<>>)
         ELSE IF Head(text) = PB
              THEN SplitPages(Tail(text), cur \o PBText)
              ELSE SplitPages(Tail(text), Append(cur, Head(text)))

\* page.strip().endswith(ref), line 508
EndsWithRef(page, ref) ==
    LET ords == SelectSeq(page, LAMBDA t : ~IsWs(t))
        t    == Last(ords)
    IN  /\ ords # <<>>
        /\ Len(ref) <= Len(t)
        /\ SubSeq(t, Len(t) - Len(ref) + 1, Len(t)) = ref

\* lines 505-510: the first page that ends with the reference, else ""
PageFor(pages, ref) ==
    LET hits == {i \in DOMAIN pages : EndsWithRef(pages[i], ref)}
    IN  IF hits = {} THEN <<>> ELSE pages[LeastOf(hits)]

\* df.to_dict(orient="records"), line 517: one mapping per row, keyed by
\* the column names
to_dict(df) ==
    [r \in DOMAIN df.rows |->
       [c \in Range(df.columns) |->
          IF c = CategoryKey THEN df.rows[r].category
          ELSE LET at == {i \in 1..(Len(df.columns) - 1) : df.columns[i + 1] = c}
               IN  df.rows[r].cells[CHOOSE i \in at : \A m \in at : m <= i]]]

(***************************************************************************)
(* State.                                                                  *)
(***************************************************************************)
VARIABLES
    doc,            \* the uploaded PDF, as the pages the layout step yields
    pdf_info_json,  \* <data_dir>/pdf_info.json: NoFile or the saved pdf_info
    section_files,  \* <data_dir>/Item <key>.txt: item number -> content
    full_text_file, \* <data_dir>/10k_full_text.txt: NoFile or its content
    ix_pc,          \* get_pdf_info: "scan", "parse", "done", "raised"
    index_text,     \* get_pdf_info: the lines of the index page
    ix_line,        \* get_pdf_info: the number of the line the loop is at
    current_part,   \* get_pdf_info: the last PART line seen
    index_dict,     \* get_pdf_info: the dict being built
    ix_calls,       \* get_pdf_info: the number of the call that runs
    up_pc,          \* index() of main_bp: "idle", "redirected", "failed"
    pp_pc,          \* process_pdf: "idle" (no task), "start", "loop",
                    \*   "write", "fulltext", "write_full", "done"
    pp_index,       \* process_pdf: the local index (Unbound before line 208)
    pp_k,           \* process_pdf: position of the loop in index.items()
    pp_text,        \* process_pdf: the text handed to f.write
    q_pc,           \* a query: "idle", "poll", "read", "done"
    q_kind,         \* "section" (get_section) or "tables" (get_financial_tables)
    q_item,         \* get_section: the item asked for
    q_timeout,      \* the local timeout of the polling loop
    q_status,       \* the HTTP status of the answer, 0 before it
    q_read,         \* what the section query read from the file
    ft_df,          \* get_finance_tables: the (Statement, Page) rows of df
    ft_pages,       \* get_finance_tables: pages
    ft_k,           \* get_finance_tables: the row of df the loop is at
    ft_text,        \* get_finance_tables: the text handed to extract_table
    ft_res,         \* get_finance_tables: what extract_table did last
    ft_tables       \* get_finance_tables: tables

filevars == <<pdf_info_json, section_files, full_text_file>>

ixvars == <<ix_pc, index_text, ix_line, current_part, index_dict, ix_calls>>

ppvars == <<pp_pc, pp_index, pp_k, pp_text>>

ftvars == <<ft_df, ft_pages, ft_k, ft_text, ft_res, ft_tables>>

qvars == <<q_pc, q_kind, q_item, q_timeout, q_status, q_read, ftvars>>

vars == <<doc, filevars, ixvars, up_pc, ppvars, qvars>>

NoFile == [exists |-> FALSE]

\* a local variable that was never assigned
Unbound == [bound |-> FALSE]

\* extract_table not called yet
NotCalled == [called |-> FALSE]

(***************************************************************************)
(* Input alphabet of the indexer runs.                                     *)
(***************************************************************************)
W(piece) == <<piece>>

\* the digit string of a page number below 100
DigitTok(n) ==
    LET d(k) == CHOOSE c \in Digits : DigitVal(c) = k
    IN  IF n < 10 THEN <<d(n)>> ELSE <<d(n \div 10), d(n % 10)>>

ItemLineOf(key, descr, page) ==
    <<W("Item"), key \o <<".">> >> \o descr \o <<DigitTok(page)>>

Key1 == <<"1">>

Key1A == <<"1", "A">>

Key2 == <<"2">>

BoldPartLine == << <<BOLD, "PART">>, <<"I", BOLD>> >>

PartLineI == << W("PART"), W("I") >>

PartLineII == << W("PART"), W("II") >>

\* lines that create an entry
ItemLines ==
    { ItemLineOf(Key1, <<W("Business")>>, 5),
      <<SP>> \o ItemLineOf(Key1, <<W("Business")>>, 8),
      ItemLineOf(Key1A, <<W("Risk"), W("Factors")>>, 8),
      <<SP, W("Item"), <<"2", ".", "Properties">>, GAP, <<"9">> >> }

\* lines that look like item lines and are none
NearMissLines ==
    { << W("ITEM"), <<"1", ".">>, W("Business"), <<"5">> >>,
      << W("Item"), <<"1", "A", ".">>, W("Risk"), W("Factors") >>,
      << W("Item"), GAP, <<"2", ".">>, W("Properties"), <<"9">> >> }

\* the lines of the indexer runs: get_pdf_info is run on every text built
\* from them, the PART lines that begin at the line start (the lines that
\* line 121 matches) included
IndexLines == {BoldPartLine, PartLineI, PartLineII} \cup ItemLines \cup NearMissLines

\* longest index page of the indexer runs, in lines
MaxLines == 4

SeqsUpTo(S, n) == UNION {[1..k -> S] : k \in 1..n}

(***************************************************************************)
(* get_pdf_info, step by step: the page scan of lines 86-111, one pass of *)
(* the line loop of lines 119-135 at a time, and the end-page loop with    *)
(* the save of lines 137-167.                                              *)
(***************************************************************************)
IxScan ==
    /\ ix_pc = "scan"
    /\ LET n == FindIndexPage(doc) IN
       IF n = -1
       THEN /\ ix_pc' = "raised"
            /\ index_text' = <<>>
       ELSE /\ ix_pc' = "parse"
            /\ index_text' = IndexPageText(doc, n)
    /\ UNCHANGED <<doc, filevars, ix_line, current_part, index_dict, ix_calls>>
    /\ UNCHANGED <<up_pc, ppvars, qvars>>

IxParseLine ==
    /\ ix_pc = "parse"
    /\ ix_line <= Len(index_text)
    /\ LET st == ParseLine([index_dict |-> index_dict,
                            current_part |-> current_part],
                           index_text[ix_line])
       IN  /\ index_dict' = st.index_dict
           /\ current_part' = st.current_part
    /\ ix_line' = ix_line + 1
    /\ UNCHANGED <<doc, filevars, ix_pc, index_text, ix_calls>>
    /\ UNCHANGED <<up_pc, ppvars, qvars>>

IxSave ==
    /\ ix_pc = "parse"
    /\ ix_line > Len(index_text)
    /\ index_dict' = CalcEndPages(index_dict)
    /\ pdf_info_json' = [exists |-> TRUE,
                         content |-> [index |-> index_dict',
                                      fiscal_year_date |-> FiscalYearDate(index_text),
                                      length |-> Len(doc)]]
    /\ ix_pc' = "done"
    /\ UNCHANGED <<doc, section_files, full_text_file>>
    /\ UNCHANGED <<index_text, ix_line, current_part, ix_calls, up_pc, ppvars, qvars>>

\* the artifact directory before the upload
InitFiles ==
    /\ pdf_info_json = NoFile
    /\ section_files = <<>>
    /\ full_text_file = NoFile

\* get_pdf_info entered
InitIx ==
    /\ ix_pc = "scan"
    /\ index_text = <<>>
    /\ ix_line = 1
    /\ current_part = NoPart
    /\ index_dict = EmptyDict
    /\ ix_calls = 1

\* the locals of process_pdf and of the queries before they run
InitLocals ==
    /\ pp_index = Unbound
    /\ pp_k = 1
    /\ pp_text = <<>>
    /\ q_pc = "idle"
    /\ q_kind = "none"
    /\ q_item = <<>>
    /\ q_timeout = 0
    /\ q_status = 0
    /\ q_read = <<>>
    /\ ft_df = <<>>
    /\ ft_pages = <<>>
    /\ ft_k = 1
    /\ ft_text = <<>>
    /\ ft_res = NotCalled
    /\ ft_tables = <<>>

\* nothing uploaded, no task, no query
InitHandlers ==
    /\ up_pc = "idle"
    /\ pp_pc = "idle"
    /\ InitLocals

InitIndex ==
    /\ doc \in {<<pg>> : pg \in SeqsUpTo(IndexLines, MaxLines)}
    /\ InitFiles
    /\ InitIx
    /\ InitHandlers

NextIndex == IxScan \/ IxParseLine \/ IxSave

SpecIndex == InitIndex /\ [][NextIndex]_vars

(***************************************************************************)
(* get_pdf_info called again on the same document and directory: the       *)
(* locals of lines 78-80 and 114-115 are set anew, the files stay.         *)
(***************************************************************************)
\* calls of get_pdf_info in a run, at most
MaxCalls == 2

\* longest index page of the runs that call get_pdf_info again, in lines
MaxReLines == 3

\* a line with the fiscal year date
FiscalLine ==
    <<SP, W("Year"), W("Ended"), W("December"), <<"3", "1", ",">>,
      <<"2", "0", "2", "3">> >>

\* a call that starts with the current part the call before ended with
IxCallAgainKeepsPart ==
    /\ ix_pc \in {"done", "raised"}
    /\ ix_calls < MaxCalls
    /\ ix_calls' = ix_calls + 1
    /\ ix_pc' = "scan"
    /\ index_text' = <<>>
    /\ ix_line' = 1
    /\ index_dict' = EmptyDict
    /\ UNCHANGED <<doc, filevars, current_part, up_pc, ppvars, qvars>>

IxCallAgain ==
    /\ ix_pc \in {"done", "raised"}
    /\ ix_calls < MaxCalls
    /\ ix_calls' = ix_calls + 1
    /\ ix_pc' = "scan"
    /\ index_text' = <<>>
    /\ ix_line' = 1
    /\ current_part' = NoPart
    /\ index_dict' = EmptyDict
    /\ UNCHANGED <<doc, filevars, up_pc, ppvars, qvars>>

InitReindex ==
    /\ doc \in {<<pg>> : pg \in SeqsUpTo(IndexLines \cup {FiscalLine}, MaxReLines)}
    /\ InitFiles
    /\ InitIx
    /\ InitHandlers

NextReindex == NextIndex \/ IxCallAgain

SpecReindex == InitReindex /\ [][NextReindex]_vars

(***************************************************************************)
(* The upload handler index() of main_bp (lines 45-67): get_pdf_info runs  *)
(* in the handler; only when it returns is the process_pdf task created.   *)
(* An exception of get_pdf_info leaves the handler at line 62.             *)
(***************************************************************************)
\* the handler with the task created whatever get_pdf_info did
UploadAlwaysStarts ==
    /\ up_pc = "idle"
    /\ LET info == get_pdf_info(doc) IN
       IF info.raised
       THEN /\ up_pc' = "failed"
            /\ UNCHANGED pdf_info_json
       ELSE /\ pdf_info_json' = [exists |-> TRUE,
                                 content |-> [index |-> info.index,
                                              fiscal_year_date |-> info.fiscal_year_date,
                                              length |-> info.length]]
            /\ up_pc' = "redirected"
    /\ pp_pc' = "start"
    /\ UNCHANGED <<doc, section_files, full_text_file, ixvars>>
    /\ UNCHANGED <<pp_index, pp_k, pp_text, qvars>>

Upload ==
    /\ up_pc = "idle"
    /\ LET info == get_pdf_info(doc) IN
       IF info.raised
       THEN /\ up_pc' = "failed"
            /\ UNCHANGED <<pdf_info_json, pp_pc>>
       ELSE /\ pdf_info_json' = [exists |-> TRUE,
                                 content |-> [index |-> info.index,
                                              fiscal_year_date |-> info.fiscal_year_date,
                                              length |-> info.length]]
            /\ pp_pc' = "start"
            /\ up_pc' = "redirected"
    /\ UNCHANGED <<doc, section_files, full_text_file, ixvars>>
    /\ UNCHANGED <<pp_index, pp_k, pp_text, qvars>>

(***************************************************************************)
(* process_pdf (lines 190-253), run by the executor thread.                *)
(***************************************************************************)
\* process_pdf taking pdf_info.json away once it has loaded the index
PpStartRemovesIndex ==
    /\ pp_pc = "start"
    /\ pp_index' = IF pdf_info_json.exists
                   THEN [bound |-> TRUE, index |-> pdf_info_json.content.index]
                   ELSE Unbound
    /\ pdf_info_json' = NoFile
    /\ pp_k' = 1
    /\ pp_pc' = "loop"
    /\ UNCHANGED <<doc, section_files, full_text_file, ixvars, up_pc, pp_text, qvars>>

\* lines 203-208
PpStart ==
    /\ pp_pc = "start"
    /\ pp_index' = IF pdf_info_json.exists
                   THEN [bound |-> TRUE, index |-> pdf_info_json.content.index]
                   ELSE Unbound
    /\ pp_k' = 1
    /\ pp_pc' = "loop"
    /\ UNCHANGED <<doc, filevars, ixvars, up_pc, pp_text, qvars>>

PpItemKey == pp_index.index.order[pp_k]

PpDetails == pp_index.index.ent[PpItemKey]

PpInLoop == pp_pc = "loop" /\ pp_index.bound /\ pp_k <= Len(pp_index.index.order)

PpWindowOk == PageRangeOk(doc, WindowStart(PpDetails), WindowEnd(PpDetails))

PpWindowText ==
    FlatLines(get_page_texts(doc, WindowStart(PpDetails), WindowEnd(PpDetails)))

\* the for statement of line 210 has no item left, or index is unbound and
\* the NameError is caught at line 242
PpLoopEnd ==
    /\ pp_pc = "loop"
    /\ IF pp_index.bound THEN pp_k > Len(pp_index.index.order) ELSE TRUE
    /\ pp_pc' = "fulltext"
    /\ UNCHANGED <<doc, filevars, ixvars, up_pc, pp_index, pp_k, pp_text, qvars>>

\* the assertion error leaving process_pdf
PpItemRaiseEscapes ==
    /\ PpInLoop
    /\ ~PpWindowOk
    /\ pp_pc' = "done"
    /\ UNCHANGED <<doc, filevars, ixvars, up_pc, pp_index, pp_k, pp_text, qvars>>

\* an assertion of get_page_texts fails (line 217); the except of line 242
\* is outside the loop
PpItemRaise ==
    /\ PpInLoop
    /\ ~PpWindowOk
    /\ pp_pc' = "fulltext"
    /\ UNCHANGED <<doc, filevars, ixvars, up_pc, pp_index, pp_k, pp_text, qvars>>

\* lines 222-224: no start marker, continue
PpItemSkip ==
    /\ PpInLoop
    /\ PpWindowOk
    /\ ~SectionSlice(PpWindowText, PpItemKey).found
    /\ pp_k' = pp_k + 1
    /\ UNCHANGED <<doc, filevars, ixvars, up_pc, pp_pc, pp_index, pp_text, qvars>>

\* lines 225-240: the slice is taken and the section file opened for writing
PpItemOpen ==
    /\ PpInLoop
    /\ PpWindowOk
    /\ LET sl == SectionSlice(PpWindowText, PpItemKey) IN
       /\ sl.found
       /\ pp_text' = sl.text
    /\ section_files' = [k \in DOMAIN section_files \cup {PpItemKey} |->
                           IF k = PpItemKey THEN <<>> ELSE section_files[k]]
    /\ pp_pc' = "write"
    /\ UNCHANGED <<doc, pdf_info_json, full_text_file, ixvars, up_pc>>
    /\ UNCHANGED <<pp_index, pp_k, qvars>>

\* the buffered writer passes a first part of the text on to the file
PpFlush ==
    /\ pp_pc = "write"
    /\ \E n \in (Len(section_files[PpItemKey]) + 1)..(Len(pp_text) - 1) :
          section_files' = [section_files EXCEPT ![PpItemKey] = SubSeq(pp_text, 1, n)]
    /\ UNCHANGED <<doc, pdf_info_json, full_text_file, ixvars, up_pc, ppvars, qvars>>

\* line 241 and the end of the with block
PpWrite ==
    /\ pp_pc = "write"
    /\ section_files' = [section_files EXCEPT ![PpItemKey] = pp_text]
    /\ pp_k' = pp_k + 1
    /\ pp_pc' = "loop"
    /\ UNCHANGED <<doc, pdf_info_json, full_text_file, ixvars, up_pc>>
    /\ UNCHANGED <<pp_index, pp_text, qvars>>

\* lines 246-249
PpOpenFull ==
    /\ pp_pc = "fulltext"
    /\ pp_text' = FullText(doc)
    /\ full_text_file' = [exists |-> TRUE, content |-> <<>>]
    /\ pp_pc' = "write_full"
    /\ UNCHANGED <<doc, pdf_info_json, section_files, ixvars, up_pc>>
    /\ UNCHANGED <<pp_index, pp_k, qvars>>

PpFlushFull ==
    /\ pp_pc = "write_full"
    /\ \E n \in (Len(full_text_file.content) + 1)..(Len(pp_text) - 1) :
          full_text_file' = [exists |-> TRUE, content |-> SubSeq(pp_text, 1, n)]
    /\ UNCHANGED <<doc, pdf_info_json, section_files, ixvars, up_pc, ppvars, qvars>>

\* line 250 and the end of the with block
PpWriteFull ==
    /\ pp_pc = "write_full"
    /\ full_text_file' = [exists |-> TRUE, content |-> pp_text]
    /\ pp_pc' = "done"
    /\ UNCHANGED <<doc, pdf_info_json, section_files, ixvars, up_pc>>
    /\ UNCHANGED <<pp_index, pp_k, pp_text, qvars>>

(***************************************************************************)
(* The queries get_section (api_bp lines 180-200) and get_financial_tables *)
(* (lines 231-247): poll until the file exists, then read it.              *)
(***************************************************************************)
\* "if timeout > 10", api_bp lines 191 and 241
PollLimit == 10

QueryItems == {<<"1">>, <<"1", "A">>, <<"2">>}

QFileExists ==
    IF q_kind = "section" THEN q_item \in DOMAIN section_files
    ELSE full_text_file.exists

QStartSection ==
    /\ q_pc = "idle"
    /\ \E item \in QueryItems : q_item' = item
    /\ q_kind' = "section"
    /\ q_timeout' = 0
    /\ q_pc' = "poll"
    /\ UNCHANGED <<doc, filevars, ixvars, up_pc, ppvars, q_status, q_read, ftvars>>

QStartTables ==
    /\ q_pc = "idle"
    /\ q_kind' = "tables"
    /\ q_timeout' = 0
    /\ q_pc' = "poll"
    /\ UNCHANGED <<doc, filevars, ixvars, up_pc, ppvars, q_item, q_status, q_read, ftvars>>

\* the while condition is false
QPollFound ==
    /\ q_pc = "poll"
    /\ QFileExists
    /\ q_pc' = "read"
    /\ UNCHANGED <<doc, filevars, ixvars, up_pc, ppvars>>
    /\ UNCHANGED <<q_kind, q_item, q_timeout, q_status, q_read, ftvars>>

\* one pass of the while loop that sleeps
QPollSleep ==
    /\ q_pc = "poll"
    /\ ~QFileExists
    /\ ~(q_timeout > PollLimit)
    /\ q_timeout' = q_timeout + 1
    /\ UNCHANGED <<doc, filevars, ixvars, up_pc, ppvars>>
    /\ UNCHANGED <<q_pc, q_kind, q_item, q_status, q_read, ftvars>>

\* the pass of the while loop that answers 404
QPollGiveUp ==
    /\ q_pc = "poll"
    /\ ~QFileExists
    /\ q_timeout > PollLimit
    /\ q_status' = 404
    /\ q_pc' = "done"
    /\ UNCHANGED <<doc, filevars, ixvars, up_pc, ppvars>>
    /\ UNCHANGED <<q_kind, q_item, q_timeout, q_read, ftvars>>

\* api_bp lines 197-200
QReadSection ==
    /\ q_pc = "read"
    /\ q_kind = "section"
    /\ q_read' = section_files[q_item]
    /\ q_status' = 200
    /\ q_pc' = "done"
    /\ UNCHANGED <<doc, filevars, ixvars, up_pc, ppvars>>
    /\ UNCHANGED <<q_kind, q_item, q_timeout, ftvars>>

\* get_financial_tables calls get_finance_tables (api_bp line 247), which
\* reads the file, finds the statement matches and splits the pages
\* (lines 489-502)
QReadTables ==
    /\ q_pc = "read"
    /\ q_kind = "tables"
    /\ LET form_10k_text == full_text_file.content
           cleaned_text  == SelectSeq(form_10k_text, LAMBDA t : ~IsWs(t))
       IN  /\ ft_df' = DropDuplicates(StatementMatches(cleaned_text, 1))
           /\ ft_pages' = SplitPages(form_10k_text, <<>>)
    /\ ft_k' = 1
    /\ ft_tables' = <<>>
    /\ q_pc' = "tables"
    /\ UNCHANGED <<doc, filevars, ixvars, up_pc, ppvars>>
    /\ UNCHANGED <<q_kind, q_item, q_timeout, q_status, q_read, ft_text, ft_res>>

\* one pass of the loop of lines 503-519; an exception of extract_table
\* leaves get_finance_tables and is answered with 500 (api_bp lines
\* 272-274)
FtExtract ==
    /\ q_pc = "tables"
    /\ ft_k <= Len(ft_df)
    /\ ft_text' = PageFor(ft_pages, ft_df[ft_k].Page)
    /\ ft_res' = [called |-> TRUE, res |-> extract_table(ft_text')]
    /\ IF ft_res'.res.raised
       THEN /\ q_status' = 500
            /\ q_pc' = "done"
            /\ UNCHANGED <<ft_k, ft_tables>>
       ELSE /\ ft_tables' = Append(ft_tables,
                                   [statement |-> ft_df[ft_k].Statement,
                                    unit |-> ft_res'.res.unit,
                                    data |-> to_dict(ft_res'.res)])
            /\ ft_k' = ft_k + 1
            /\ UNCHANGED <<q_status, q_pc>>
    /\ UNCHANGED <<doc, filevars, ixvars, up_pc, ppvars>>
    /\ UNCHANGED <<q_kind, q_item, q_timeout, q_read, ft_df, ft_pages>>

\* line 520 and api_bp lines 250-270: the tables are answered; a NaN cell
\* is what the handler renders as the empty string
FtReturn ==
    /\ q_pc = "tables"
    /\ ft_k > Len(ft_df)
    /\ q_status' = 200
    /\ q_pc' = "done"
    /\ UNCHANGED <<doc, filevars, ixvars, up_pc, ppvars>>
    /\ UNCHANGED <<q_kind, q_item, q_timeout, q_read, ftvars>>

(***************************************************************************)
(* The metadata query (api_bp lines 29-47) with get_pdf_metadata (lines    *)
(* 31-58): 404 without the data directory; the test of line 47 is on a     *)
(* path object, which is always true, so pdf_info.json is opened for       *)
(* reading whether it exists or not.                                       *)
(***************************************************************************)
\* get_pdf_info is what creates the data directory (line 163)
DataDirExists ==
    pdf_info_json.exists \/ full_text_file.exists \/ section_files # <<>>

get_pdf_metadata ==
    [num_pages |-> pdf_info_json.content.length,
     preview |-> get_page_texts(doc, 0, 1),
     fiscal_year_date |-> pdf_info_json.content.fiscal_year_date]

QMetadata ==
    /\ q_pc = "idle"
    /\ q_kind' = "metadata"
    /\ IF ~DataDirExists
       THEN q_status' = 404 /\ UNCHANGED q_read
       ELSE IF ~pdf_info_json.exists
            THEN q_status' = 500 /\ UNCHANGED q_read
            ELSE q_status' = 200 /\ q_read' = get_pdf_metadata
    /\ q_pc' = "done"
    /\ UNCHANGED <<doc, filevars, ixvars, up_pc, ppvars>>
    /\ UNCHANGED <<q_item, q_timeout, ftvars>>

(***************************************************************************)
(* Documents of the upload, segmenter and query runs.                      *)
(***************************************************************************)
\* a page of running text
PgText == << <<SP, W("text")>> >>

\* the first page of Item 1: its bold heading, and a line that names
\* another item without bold markers
PgH1 ==
    << <<SP, <<BOLD, "ITEM">>, <<"1", ".">>, <<"BUSINESS", BOLD>> >>,
       <<SP, W("We"), W("make")>>,
       <<SP, W("ITEM"), <<"2", ".">>, W("below")>> >>

\* the first page of Item 1A: text of the item before, the heading behind
\* it on the same line, and a page-number line
PgH1A ==
    << <<SP, W("end"), <<"of", BOLD, "ITEM">>, <<"1", "A", ".">>,
         W("RISK"), <<"FACTORS", BOLD>> >>,
       <<SP, W("Risks")>>,
       <<SP, <<"7">> >> >>

\* the first page of Item 2
PgH2 ==
    << <<SP, W("continued")>>,
       <<SP, <<BOLD, "ITEM">>, <<"2", ".">>, <<"PROPERTIES", BOLD>> >>,
       <<SP, W("None")>> >>

\* pages of a segmenter document behind its index page, at most
SegPages == 2

\* item lines on the index page of a segmenter document, at most
MaxSegLines == 3

\* every line of a laid-out page begins with whitespace
\* (create_text_by_page, lines 352-355)
SegIndexLines ==
    { <<SP>> \o ItemLineOf(Key1, <<W("Business")>>, 0),
      <<SP>> \o ItemLineOf(Key1A, <<W("Risk"), W("Factors")>>, 1),
      <<SP>> \o ItemLineOf(Key2, <<W("Properties")>>, 2) }

SegContentPages == {PgH1, PgH1A, PgH2}

IndexPageOf(lines) == <<<<SP>> \o BoldPartLine>> \o lines

\* 23 pages: the index of the instance on the first page, the headings on
\* the pages the index declares
InstanceDoc ==
    [n \in 1..23 |->
       IF n = 1
       THEN << <<SP>> \o BoldPartLine,
               <<SP>> \o ItemLineOf(Key1, <<W("Business")>>, 5),
               <<SP>> \o ItemLineOf(Key1A, <<W("Risk"), W("Factors")>>, 8),
               <<SP>> \o ItemLineOf(Key2, <<W("Properties")>>, 20) >>
       ELSE IF n = 7 THEN PgH1
       ELSE IF n = 10 THEN PgH1A
       ELSE IF n = 22 THEN PgH2
       ELSE PgText]

SegDocs ==
    {InstanceDoc} \cup
    { <<IndexPageOf(lines)>> \o content :
        lines \in SeqsUpTo(SegIndexLines, MaxSegLines),
        content \in SeqsUpTo(SegContentPages, SegPages) }

\* pages of an upload document, at most
MaxPages == 11

\* the index page of an upload document that stands at zero-based
\* position p: the items are declared on the pages that follow it (the
\* document has no heading for Item 2)
UploadIndexPage(p) ==
    << <<SP>> \o BoldPartLine,
       <<SP>> \o ItemLineOf(Key1, <<W("Business")>>, p),
       <<SP>> \o ItemLineOf(Key1A, <<W("Risk"), W("Factors")>>, p + 1),
       <<SP>> \o ItemLineOf(Key2, <<W("Properties")>>, p + 1) >>

\* n pages with the index page at zero-based position p (no index page
\* when p is no position of the document)
UploadDoc(n, p) ==
    [i \in 1..n |->
       IF i = p + 1 THEN UploadIndexPage(p)
       ELSE IF i = p + 2 THEN PgH1
       ELSE IF i = p + 3 THEN PgH1A
       ELSE PgText]

\* the part marker and "Item 1." on two different pages
SplitMarkersDoc ==
    << << <<SP>> \o BoldPartLine >>,
       << <<SP>> \o ItemLineOf(Key1, <<W("Business")>>, 1) >>,
       PgH1 >>

UploadDocs ==
    {SplitMarkersDoc} \cup
    { UploadDoc(n, p) : n \in 1..MaxPages, p \in 0..MaxPages }

\* documents of the query runs
QueryDocs ==
    { UploadDoc(3, 0), UploadDoc(2, 0), UploadDoc(1, 1) }

(***************************************************************************)
(* Documents of the table runs: an index page that lists the statements    *)
(* with their page references, the balance sheet on the page that ends     *)
(* with F-1 and, in some, the cash flow statement on the page that ends    *)
(* with F-2.                                                               *)
(***************************************************************************)
FRef(n) == <<"F-">> \o DigitTok(n)

TableIndexPage ==
    << <<SP>> \o BoldPartLine,
       <<SP, W("Balance"), W("Sheets"), FRef(1)>>,
       <<SP, W("Statements"), W("of"), W("Cash"), W("Flows"), FRef(2)>>,
       <<SP>> \o ItemLineOf(Key1, <<W("Business")>>, 0) >>

YearToks ==
    << <<BOLD, "2", "0", "2", "3", BOLD>>,
       <<BOLD, "2", "0", "2", "2", BOLD>>,
       <<BOLD, "2", "0", "2", "1", BOLD>>,
       <<BOLD, "2", "0", "2", "0", BOLD>>,
       <<BOLD, "2", "0", "1", "9", BOLD>> >>

UnitToks == << <<"(", "in">>, <<"thousands", ")">> >>

\* the line that heads a statement page: the name of the statement, the
\* unit label (or none) and k bold years
HeaderLine(name, unit, k) ==
    <<SP>> \o name \o (IF unit THEN UnitToks ELSE <<>>) \o SubSeq(YearToks, 1, k)

\* two numbers, three numbers, a dash for a number, no number
TableLines ==
    { <<SP, W("Total"), W("assets"), <<"1", ",", "2", "3", "4">>,
        <<"(", "5", "6", "7", ")">> >>,
      <<SP, W("Net"), W("loss"), <<"(", "1", "2", ")">>, <<"3">>, <<"4">> >>,
      <<SP, W("Cash"), <<"-">>, <<"5">> >>,
      <<SP, W("Notes")>> }

\* lines between the header and the page reference of the balance sheet
\* page, at most
MaxRows == 2

\* bold years in the header of the balance sheet page, at most
MaxYears == 3

BalanceSheetPage(unit, k, lines) ==
    <<HeaderLine(<<W("Balance"), W("Sheets")>>, unit, k)>> \o lines
    \o << <<SP, FRef(1)>> >>

CashFlowPages ==
    { <<>>,
      << << HeaderLine(<<W("Statements"), W("of"), W("Cash"), W("Flows")>>, TRUE, 2),
            <<SP, W("Net"), W("cash"), <<"8">>, <<"9">> >>,
            <<SP, FRef(2)>> >> >>,
      << << HeaderLine(<<W("Statements"), W("of"), W("Cash"), W("Flows")>>, TRUE, 2),
            <<SP, FRef(2)>> >> >> }

TableDocs ==
    { <<TableIndexPage, BalanceSheetPage(unit, k, lines)>> \o cf :
        unit \in BOOLEAN, k \in 1..MaxYears,
        lines \in {<<>>} \cup SeqsUpTo(TableLines, MaxRows),
        cf \in CashFlowPages }

(***************************************************************************)
(* Specifications.                                                         *)
(***************************************************************************)
\* process_pdf with every file written in one step
ProcessPdfSteps ==
    \/ PpStart
    \/ PpLoopEnd
    \/ PpItemRaise
    \/ PpItemSkip
    \/ PpItemOpen
    \/ PpWrite
    \/ PpOpenFull
    \/ PpWriteFull

\* process_pdf, any step
ProcessPdf == ProcessPdfSteps \/ PpFlush \/ PpFlushFull

\* the upload flow: index() and the task it creates
Init ==
    /\ doc \in UploadDocs
    /\ InitFiles
    /\ InitIx
    /\ InitHandlers

Next == Upload \/ ProcessPdf

Spec == Init /\ [][Next]_vars

\* the upload flow over the segmenter documents, the files as they are
\* when a write has ended
InitSegment ==
    /\ doc \in SegDocs
    /\ InitFiles
    /\ InitIx
    /\ InitHandlers

NextSegment == Upload \/ ProcessPdfSteps

SpecSegment == InitSegment /\ [][NextSegment]_vars

\* the upload flow with one section query running beside it
SectionQuery ==
    \/ QStartSection
    \/ QPollFound
    \/ QPollSleep
    \/ QPollGiveUp
    \/ QReadSection

InitQuery ==
    /\ doc \in QueryDocs
    /\ InitFiles
    /\ InitIx
    /\ InitHandlers

NextQuery == Upload \/ ProcessPdf \/ SectionQuery

SpecQuery == InitQuery /\ [][NextQuery]_vars

\* the table query on a document that process_pdf is done with: the
\* index is saved, no section was found (no page holds an item heading),
\* the full text is written
TablesQuery ==
    \/ QStartTables
    \/ QPollFound
    \/ QReadTables
    \/ FtExtract
    \/ FtReturn

ProcessPdfDone ==
    /\ LET info == get_pdf_info(doc) IN
       /\ pdf_info_json = [exists |-> TRUE,
                           content |-> [index |-> info.index,
                                        fiscal_year_date |-> info.fiscal_year_date,
                                        length |-> info.length]]
       /\ pp_index = [bound |-> TRUE, index |-> info.index]
       /\ pp_k = Len(info.index.order) + 1
    /\ section_files = <<>>
    /\ full_text_file = [exists |-> TRUE, content |-> FullText(doc)]
    /\ InitIx
    /\ up_pc = "redirected"
    /\ pp_pc = "done"
    /\ pp_text = FullText(doc)
    /\ q_pc = "idle"
    /\ q_kind = "none"
    /\ q_item = <<>>
    /\ q_timeout = 0
    /\ q_status = 0
    /\ q_read = <<>>
    /\ ft_df = <<>>
    /\ ft_pages = <<>>
    /\ ft_k = 1
    /\ ft_text = <<>>
    /\ ft_res = NotCalled
    /\ ft_tables = <<>>

InitTable == doc \in TableDocs /\ ProcessPdfDone

NextTable == TablesQuery

SpecTable == InitTable /\ [][NextTable]_vars

\* the upload flow over the documents of the table runs, to the state the
\* table runs start in
InitTableUpload ==
    /\ doc \in TableDocs
    /\ InitFiles
    /\ InitIx
    /\ InitHandlers

SpecTableUpload == InitTableUpload /\ [][Next]_vars

\* the upload flow with one query of any kind running beside it
FrameDocs ==
    QueryDocs \cup
    { <<TableIndexPage,
        BalanceSheetPage(TRUE, 2,
            << <<SP, W("Total"), W("assets"), <<"1", ",", "2", "3", "4">>,
                 <<"(", "5", "6", "7", ")">> >> >>)>> }

AnyQuery ==
    \/ QStartSection
    \/ QStartTables
    \/ QMetadata
    \/ QPollFound
    \/ QPollSleep
    \/ QPollGiveUp
    \/ QReadSection
    \/ QReadTables
    \/ FtExtract
    \/ FtReturn

InitFrame ==
    /\ doc \in FrameDocs
    /\ InitFiles
    /\ InitIx
    /\ InitHandlers

NextFrame == Upload \/ ProcessPdfSteps \/ AnyQuery

SpecFrame == InitFrame /\ [][NextFrame]_vars

\* the upload flow over documents that may hold pages without text (a
\* blank or scanned page has no span)
BlankPage == <<>>

BlankDocs ==
    { <<IndexPageOf(lines)>> \o content :
        lines \in SeqsUpTo(SegIndexLines, MaxSegLines),
        content \in SeqsUpTo(SegContentPages \cup {BlankPage}, SegPages) }

InitBlank ==
    /\ doc \in BlankDocs
    /\ InitFiles
    /\ InitIx
    /\ InitHandlers

SpecBlank == InitBlank /\ [][NextSegment]_vars

\* the table query on documents with a page whose first line is empty
\* (the spans of the topmost line hold whitespace only, which rstrip of
\* line 357 takes away) or whose block is empty
EmptyLine == <<>>

SplitDocs ==
    { <<TableIndexPage, top \o BalanceSheetPage(unit, 2, lines)>> \o cf :
        top \in {<<>>, <<EmptyLine>>},
        unit \in BOOLEAN,
        lines \in SeqsUpTo(TableLines, 1),
        cf \in CashFlowPages \cup {<< <<EmptyLine>> >>} }

InitSplit == doc \in SplitDocs /\ ProcessPdfDone

SpecSplit == InitSplit /\ [][NextTable]_vars

\* the upload flow over these documents, to the state the table query
\* starts in
InitSplitUpload ==
    /\ doc \in SplitDocs
    /\ InitFiles
    /\ InitIx
    /\ InitHandlers

SpecSplitUpload == InitSplitUpload /\ [][Next]_vars

\* get_pdf_info on documents with several pages that qualify as the index
\* page, behind any number of pages of running text
ScanPages ==
    { << <<SP>> \o BoldPartLine,
         <<SP>> \o ItemLineOf(Key1, <<W("Business")>>, 5),
         FiscalLine >>,
      << <<SP>> \o BoldPartLine,
         <<SP>> \o ItemLineOf(Key1, <<W("Business")>>, 7),
         <<SP>> \o ItemLineOf(Key1A, <<W("Risk"), W("Factors")>>, 9) >>,
      << <<SP>> \o BoldPartLine >>,
      PgText }

ScanDocs ==
    { [i \in 1..k |-> PgText] \o tail :
        k \in 0..MaxPages, tail \in SeqsUpTo(ScanPages, 2) }

InitScan ==
    /\ doc \in ScanDocs
    /\ InitFiles
    /\ InitIx
    /\ InitHandlers

SpecScan == InitScan /\ [][NextIndex]_vars

\* process_pdf called for a data directory that exists and holds no
\* pdf_info.json, with one table query running beside it
NoIndexDocs ==
    { <<TableIndexPage, BalanceSheetPage(TRUE, 2, lines)>> \o cf :
        lines \in {<<>>} \cup SeqsUpTo(TableLines, MaxRows),
        cf \in CashFlowPages }

InitNoIndex ==
    /\ doc \in NoIndexDocs
    /\ InitFiles
    /\ InitIx
    /\ up_pc = "idle"
    /\ pp_pc = "start"
    /\ InitLocals

NextNoIndex ==
    \/ PpStart
    \/ PpLoopEnd
    \/ PpOpenFull
    \/ PpWriteFull
    \/ QStartTables
    \/ QPollFound
    \/ QPollSleep
    \/ QPollGiveUp
    \/ QReadTables
    \/ FtExtract
    \/ FtReturn

SpecNoIndex == InitNoIndex /\ [][NextNoIndex]_vars

(***************************************************************************)
(* Properties of the indexer.                                              *)
(***************************************************************************)
Keys == DOMAIN index_dict.ent

Entry(k) == index_dict.ent[k]

\* position of key k in the insertion order of the dict
PosOf(k) == CHOOSE i \in DOMAIN index_dict.order : index_dict.order[i] = k

\* a comes before b when the entries are ordered by start_page, entries
\* with the same start_page staying in the order of their lines
Before(a, b) ==
    \/ Entry(a).start_page < Entry(b).start_page
    \/ Entry(a).start_page = Entry(b).start_page /\ PosOf(a) < PosOf(b)

Adjacent(a, b) ==
    /\ a # b /\ Before(a, b)
    /\ ~ \E c \in Keys \ {a, b} : Before(a, c) /\ Before(c, b)

\* C1: end-page rule.  When get_pdf_info is done, for entries a, b adjacent
\* in start_page order: same part gives a.end_page = b.start_page;
\* different parts and different start pages give a.end_page =
\* b.start_page - 1; different parts and equal start pages leave
\* a.end_page = a.start_page; an entry of greatest start_page keeps
\* end_page = start_page.
C1_EndPageRule ==
    ix_pc = "done" =>
        /\ \A a, b \in Keys :
              Adjacent(a, b) =>
                 IF Entry(a).part = Entry(b).part
                 THEN Entry(a).end_page = Entry(b).start_page
                 ELSE IF Entry(a).start_page # Entry(b).start_page
                      THEN Entry(a).end_page = Entry(b).start_page - 1
                      ELSE Entry(a).end_page = Entry(a).start_page
        /\ \A a \in Keys :
              (\A b \in Keys : Entry(b).start_page <= Entry(a).start_page)
                 => Entry(a).end_page = Entry(a).start_page

\* three entries in two parts: a cross-part pair with different start
\* pages followed by a same-part pair
C1_Witness ==
    /\ ix_pc = "done"
    /\ \E a, b, c \in Keys :
          /\ Adjacent(a, b) /\ Adjacent(b, c)
          /\ Entry(a).part # Entry(b).part
          /\ Entry(a).start_page < Entry(b).start_page
          /\ Entry(b).part = Entry(c).part
          /\ Entry(b).start_page < Entry(c).start_page

\* C2: every entry of a persisted index has start_page <= end_page.
C2_StartLeqEnd ==
    pdf_info_json.exists =>
        \A k \in DOMAIN pdf_info_json.content.index.ent :
            pdf_info_json.content.index.ent[k].start_page
               <= pdf_info_json.content.index.ent[k].end_page

\* a persisted index with two entries of different parts on the same
\* start page, and two of different parts one page apart
C2_Witness ==
    /\ pdf_info_json.exists /\ ix_pc = "done"
    /\ \E a, b, c \in Keys :
          /\ Adjacent(a, b) /\ Adjacent(b, c)
          /\ Entry(a).part # Entry(b).part
          /\ Entry(a).start_page = Entry(b).start_page
          /\ Entry(b).part # Entry(c).part
          /\ Entry(b).start_page + 1 = Entry(c).start_page

(***************************************************************************)
(* The form "Item <num><letter?>. <description> <page>", stated on the     *)
(* line without reference to the matcher of the code.                      *)
(***************************************************************************)
IsKeyForm(k) ==
    \E n \in 1..Len(k) :
        /\ \A i \in 1..n : k[i] \in Digits
        /\ n = Len(k) \/ (n + 1 = Len(k) /\ k[n + 1] \in Upper)

\* the ways to read line as Item, key, period, description, page
ItemForms(line) ==
    LET s == IF line # <<>> /\ line[1] \in {SP, GAP} THEN Tail(line) ELSE line
    IN  IF Len(s) < 3 \/ s[1] # <<"Item">> \/ IsWs(s[2]) THEN {}
        ELSE { [key |-> SubSeq(s[2], 1, n),
                description |->
                   StripGaps((IF n + 1 = Len(s[2]) THEN <<>>
                              ELSE << SubSeq(s[2], n + 2, Len(s[2])) >>)
                             \o SubSeq(s, 3, Len(s) - 1)),
                page |-> IntOf(s[Len(s)])] :
               n \in {m \in 1..(Len(s[2]) - 1) :
                        /\ IsKeyForm(SubSeq(s[2], 1, m))
                        /\ s[2][m + 1] = "."
                        /\ \A i \in DOMAIN s[Len(s)] : s[Len(s)][i] \in Digits} }

InstancePage ==
    << BoldPartLine,
       << W("Item"), <<"1", ".">>, W("Business"), <<"5">> >>,
       << W("Item"), <<"1", "A", ".">>, W("Risk"), W("Factors"), <<"8">> >> >>

\* C9 (one pass of the line loop): a line of the form creates the entry
\* keyed by its item number, with the declared page as start_page and
\* end_page and with its description, and touches no other entry; any
\* other line leaves the dict as it is.
C9_LineStep ==
    (ix_pc = "parse" /\ ix_line <= Len(index_text) /\ ix_line' = ix_line + 1) =>
        LET forms == ItemForms(index_text[ix_line]) IN
        IF forms = {} THEN index_dict' = index_dict
        ELSE \E f \in forms :
               /\ DOMAIN index_dict'.ent = DOMAIN index_dict.ent \cup {f.key}
               /\ index_dict'.ent[f.key].description = f.description
               /\ index_dict'.ent[f.key].start_page = f.page
               /\ index_dict'.ent[f.key].end_page = f.page
               /\ \A k \in DOMAIN index_dict.ent \ {f.key} :
                     index_dict'.ent[k] = index_dict.ent[k]

\* C9 (instance): the three-line page gives exactly Item 1 (5 to 8) and
\* Item 1A (from 8).
C9_Instance ==
    (ix_pc = "done" /\ doc = <<InstancePage>>) =>
        /\ index_dict.order = <<Key1, Key1A>>
        /\ Keys = {Key1, Key1A}
        /\ Entry(Key1).start_page = 5 /\ Entry(Key1).end_page = 8
        /\ Entry(Key1).description = <<W("Business")>>
        /\ Entry(Key1A).start_page = 8
        /\ Entry(Key1A).description = <<W("Risk"), W("Factors")>>

\* C9: item-line parsing.
C9_ItemLineParsing == [][C9_LineStep]_vars /\ []C9_Instance

\* the line loop has created two entries and skipped a near miss
C9_Witness ==
    /\ ix_pc = "parse" /\ ix_line > Len(index_text)
    /\ Cardinality(Keys) = 2
    /\ \E i \in DOMAIN index_text : index_text[i] \in NearMissLines
    /\ \A k \in Keys : Entry(k).end_page = Entry(k).start_page

(***************************************************************************)
(* Properties of the upload flow.                                          *)
(***************************************************************************)
\* none of the first min(10, total_pages) pages holds both markers
NoQualifyingPage ==
    \A n \in 0..(Min(10, Len(doc)) - 1) : ~IsIndexPage(IndexPageText(doc, n))

\* C3: fatal index failure.  When none of the first min(10, total_pages)
\* pages contains both "PART I" and "Item 1.", the upload never gets past
\* get_pdf_info: pdf_info.json is not written, the process_pdf task is
\* never started, and no section file and no full-text file exists.
C3_FatalIndexFailure ==
    NoQualifyingPage =>
        /\ up_pc \in {"idle", "failed"}
        /\ pdf_info_json = NoFile
        /\ pp_pc = "idle"
        /\ section_files = <<>>
        /\ full_text_file = NoFile

\* an upload that failed although the document has an index page: the
\* page stands at position 10, behind the pages that are scanned
C3_Witness ==
    /\ up_pc = "failed"
    /\ Len(doc) = 11
    /\ IsIndexPage(IndexPageText(doc, 10))
    /\ NoQualifyingPage

(***************************************************************************)
(* Properties of the segmenter.                                            *)
(***************************************************************************)
SavedIndex == pdf_info_json.content.index

\* the page window of the entry of key reaches no further than the last
\* page
WindowReadable(key) == SavedIndex.ent[key].end_page + 2 <= Len(doc)

\* the text of the pages with zero-based positions start_page + 1 up to but
\* excluding end_page + 2
WindowTextOf(key) ==
    FlatLines(get_page_texts(doc, SavedIndex.ent[key].start_page + 1,
                             SavedIndex.ent[key].end_page + 2))

\* a bold heading "**ITEM <num>." begins with the last two pieces of
\* token i
BoldHeadingAt(text, i, num) ==
    /\ i + 1 <= Len(text)
    /\ Len(text[i]) >= 2
    /\ SubSeq(text[i], Len(text[i]) - 1, Len(text[i])) = <<BOLD, "ITEM">>
    /\ Len(text[i + 1]) > Len(num)
    /\ SubSeq(text[i + 1], 1, Len(num) + 1) = num \o <<".">>

\* the item numbers a heading can carry
HeadingNums ==
    {<<d>> : d \in Digits} \cup {<<d, u>> : d \in Digits, u \in Upper}

AnyBoldHeadingAt(text, i) == \E num \in HeadingNums : BoldHeadingAt(text, i, num)

HeadingInWindow(key) ==
    \E i \in DOMAIN WindowTextOf(key) : BoldHeadingAt(WindowTextOf(key), i, key)

\* C4: item isolation.  When process_pdf is done, every item of the index
\* whose window can be read and holds its heading has its section file,
\* whatever happened to the items before it.
C4_ItemIsolation ==
    pp_pc = "done" =>
        \A key \in DOMAIN SavedIndex.ent :
            WindowReadable(key) /\ HeadingInWindow(key)
                => key \in DOMAIN section_files

\* the section file of key is written and closed
SectionWritten(key) ==
    /\ key \in DOMAIN section_files
    /\ ~(pp_pc = "write" /\ PpItemKey = key)

\* file is the part of text that begins with the heading at token i and
\* ends immediately before the first bold item heading behind it, or at
\* the end of text when there is none
SliceFrom(text, i, file) ==
    LET e == i + Len(file) - 1 IN
    /\ Len(file) >= 2
    /\ file[1] = <<BOLD, "ITEM">>
    /\ e <= Len(text)
    /\ \A n \in 2..(Len(file) - 1) : file[n] = text[i + n - 1]
    /\ \/ /\ e = Len(text)
          /\ Last(file) = text[e]
          /\ \A j \in (i + 1)..e : ~AnyBoldHeadingAt(text, j)
       \/ /\ e < Len(text)
          /\ Last(file) = text[e]
          /\ text[e + 1] = <<BOLD, "ITEM">>
          /\ AnyBoldHeadingAt(text, e + 1)
          /\ \A j \in (i + 1)..e : ~AnyBoldHeadingAt(text, j)
       \/ /\ AnyBoldHeadingAt(text, e)
          /\ text[e] = Last(file) \o <<BOLD, "ITEM">>
          /\ \A j \in (i + 1)..(e - 1) : ~AnyBoldHeadingAt(text, j)

\* C7: section slice bounds.  The window of a written section file (pages
\* start_page + 1 up to but excluding end_page + 2) lies in the document,
\* and the file holds the part of the window text that begins at the first "**ITEM <key>." heading and ends immediately
\* before the first bold item heading behind it, or at the end of the
\* window; no second item heading lies in it.
C7_SliceBounds ==
    \A key \in DOMAIN section_files :
        SectionWritten(key) =>
            LET text   == WindowTextOf(key)
                starts == {i \in DOMAIN text : BoldHeadingAt(text, i, key)}
                file   == section_files[key]
            IN  /\ WindowReadable(key)
                /\ starts # {}
                /\ SliceFrom(text, LeastOf(starts), file)
                /\ \A n \in 2..(Len(file) - 1) : ~AnyBoldHeadingAt(file, n)

\* the instance: the Item 1A section of the 23-page document runs from
\* its heading on page 9 to the whitespace before the Item 2 heading on
\* page 21
C7_Witness ==
    /\ doc = InstanceDoc
    /\ pp_pc = "done"
    /\ Key1A \in DOMAIN section_files
    /\ section_files[Key1A][2] = <<"1", "A", ".">>
    /\ Last(section_files[Key1A]) = SP
    /\ SavedIndex.ent[Key1A].start_page = 8
    /\ SavedIndex.ent[Key1A].end_page = 20

(***************************************************************************)
(* Properties of the queries.                                              *)
(***************************************************************************)
\* C10: published artifacts are complete.  A section query that answered
\* with the content of a file has read what process_pdf finally wrote to
\* that file, never the empty file or a first part of it.
C10_CompleteArtifacts ==
    (q_pc = "done" /\ q_kind = "section" /\ q_status = 200 /\ pp_pc = "done")
        => q_read = section_files[q_item]

(***************************************************************************)
(* Properties of the table extractor.                                      *)
(***************************************************************************)
\* what the table runs start from is what the upload flow ends in
TableRunsStartState ==
    pp_pc = "done" =>
        LET info == get_pdf_info(doc) IN
        /\ pdf_info_json.exists /\ pdf_info_json.content.index = info.index
        /\ pp_index = [bound |-> TRUE, index |-> info.index]
        /\ pp_k = Len(info.index.order) + 1
        /\ section_files = <<>>
        /\ full_text_file = [exists |-> TRUE, content |-> FullText(doc)]
        /\ pp_text = FullText(doc)
        /\ up_pc = "redirected"

\* the lines of the text extract_table was called with that the row
\* pattern accepts
RowsOfText == RowMatches(ReplaceDollar(ft_text), 1)

\* the bold years of that text
YearsOfText == YearsOf(ReplaceDollar(ft_text))

\* every number of every accepted line can be converted
NumbersWellFormed ==
    \A r \in DOMAIN RowsOfText :
        \A i \in DOMAIN RowsOfText[r].groups :
            FloatOk(CleanNumber(RowsOfText[r].groups[i]))

\* C5: zero-row statements are kept.  When extract_table has been called
\* for a statement match whose page holds no line the row pattern accepts
\* (or for which no page was found), no exception ends the call and the
\* list gets an entry for the match with an empty row list.
C5_ZeroRowStatementsKept ==
    (ft_res.called /\ RowsOfText = <<>>) =>
        /\ ~ft_res.res.raised
        /\ ft_tables # <<>>
        /\ Last(ft_tables).data = <<>>

\* C6: malformed numeric tokens do not abort.  When extract_table has been
\* called for a page whose accepted lines fit the year columns and one of
\* them carries a token that is no number, or that has no unit label, no
\* exception ends the call.
C6_MalformedTokensSkipped ==
    (/\ ft_res.called
     /\ RowsOfText # <<>>
     /\ \A r \in DOMAIN RowsOfText :
           Len(RowsOfText[r].groups) = Len(YearsOfText)
     /\ ~NumbersWellFormed \/ UnitOf(ReplaceDollar(ft_text)) = UnknownUnit)
        => ~ft_res.res.raised

\* C8: table row assembly.  When extract_table has been called for a page
\* with k bold years, k in 1..3, and accepted lines whose numbers are all
\* well formed, it returns one row per accepted line, in line order, with
\* the label under Category and the i-th number under the i-th year.
C8_RowAssembly ==
    (/\ ft_res.called
     /\ RowsOfText # <<>>
     /\ Len(YearsOfText) \in 1..3
     /\ NumbersWellFormed)
        => /\ ~ft_res.res.raised
           /\ Len(Last(ft_tables).data) = Len(RowsOfText)
           /\ \A r \in DOMAIN RowsOfText :
                 LET row == Last(ft_tables).data[r]
                     m   == RowsOfText[r]
                 IN  /\ row[CategoryKey] = m.category
                     /\ \A i \in 1..Min(Len(YearsOfText), Len(m.groups)) :
                           row[YearsOfText[i]]
                               = Num(FloatOf(CleanNumber(m.groups[i])))

\* page n is the lowest page among the first min(10, total) that holds
\* both markers
FirstQualifying(d, n) ==
    /\ n \in 0..(Min(IndexScanLimit, Len(d)) - 1)
    /\ IsIndexPage(IndexPageText(d, n))
    /\ \A m \in 0..(n - 1) : ~IsIndexPage(IndexPageText(d, m))

\* d2 has the pages of d up to page n
SamePagesUpTo(d, d2, n) ==
    /\ Len(d2) > n
    /\ \A i \in 1..(n + 1) : d2[i] = d[i]

\* C16: first qualifying page wins.  The index text is the text of the
\* lowest page among the first min(10, total) that holds both markers;
\* the saved index and fiscal year date are those of that page alone, so
\* that every document with the same pages up to it gives the same
\* result; and when get_pdf_info raises, so does every document with the
\* same first ten pages.
C16_FirstQualifyingPageWins ==
    /\ ix_pc \in {"parse", "done"} =>
          \E n \in 0..(Len(doc) - 1) :
             /\ FirstQualifying(doc, n)
             /\ index_text = IndexPageText(doc, n)
             /\ ix_pc = "done" =>
                   /\ pdf_info_json.content.index
                         = CalcEndPages(ParseIndex(IndexPageText(doc, n)))
                   /\ pdf_info_json.content.fiscal_year_date
                         = FiscalYearDate(IndexPageText(doc, n))
                   /\ \A d2 \in ScanDocs :
                         SamePagesUpTo(doc, d2, n) =>
                            /\ ~get_pdf_info(d2).raised
                            /\ get_pdf_info(d2).index = pdf_info_json.content.index
                            /\ get_pdf_info(d2).fiscal_year_date
                                  = pdf_info_json.content.fiscal_year_date
    /\ ix_pc = "raised" =>
          \A d2 \in ScanDocs :
             (Len(doc) >= IndexScanLimit /\ SamePagesUpTo(doc, d2, IndexScanLimit - 1))
                => get_pdf_info(d2).raised

\* the index is saved from the first of two pages that qualify and differ
C16_Witness ==
    /\ ix_pc = "done"
    /\ \E n, m \in 0..(Len(doc) - 1) :
          /\ n < m /\ m < IndexScanLimit
          /\ IsIndexPage(IndexPageText(doc, n))
          /\ IsIndexPage(IndexPageText(doc, m))
          /\ IndexPageText(doc, n) # IndexPageText(doc, m)
          /\ index_text = IndexPageText(doc, n)
          /\ pdf_info_json.content.fiscal_year_date # <<>>

\* C12: the indexer is idempotent.  A later call of get_pdf_info on the
\* same document returns the index the file of the call before holds and
\* writes the file again as it was, fiscal year date included; and it
\* raises only when the call before left no file.
C12_IndexerIdempotent ==
    [][/\ (ix_calls > 1 /\ ix_pc = "parse" /\ ix_pc' = "done")
           => /\ pdf_info_json.exists
              /\ pdf_info_json' = pdf_info_json
              /\ index_dict' = pdf_info_json.content.index
       /\ (ix_calls > 1 /\ ix_pc' = "raised") => ~pdf_info_json.exists]_vars

\* the second call has returned an index with a part and a fiscal year
\* date
C12_Witness ==
    /\ ix_calls = 2
    /\ ix_pc = "done"
    /\ \E k \in Keys : Entry(k).part # NoPart
    /\ pdf_info_json.content.fiscal_year_date # <<>>

\* the lines of the index page as get_pdf_info reads them in the upload
UploadIndexText == IndexPageText(doc, FindIndexPage(doc))

\* line j is the line the entry of its item was created from, and line i
\* is the last part-marker line (PART I, PART II, ...) above it
UnderPartMarker(text, i, j) ==
    /\ i < j
    /\ IsPartLine(Strip(text[i]))
    /\ IsItemLine(text[j])
    /\ \A m \in (i + 1)..(j - 1) : ~IsPartLine(Strip(text[m]))
    /\ \A m \in (j + 1)..Len(text) :
          ~(IsItemLine(text[m]) /\ ItemKey(text[m]) = ItemKey(text[j]))

\* C13: part context.  On an index page that comes from the layout step,
\* every entry created from a line below a part-marker line has that
\* marker line as its part.
C13_PartContext ==
    pdf_info_json.exists =>
        \A i, j \in DOMAIN UploadIndexText :
            UnderPartMarker(UploadIndexText, i, j)
                => pdf_info_json.content.index.ent[ItemKey(UploadIndexText[j])].part
                       = Strip(UploadIndexText[i])

(***************************************************************************)
(* Properties of the layout step.                                          *)
(***************************************************************************)
\* C14: one block per page.  create_text_by_page yields as many blocks as
\* the document has pages, a page without spans giving the empty block,
\* so that the full text holds the text of the i-th page as its i-th
\* block.
C14_OneBlockPerPage ==
    pp_pc = "done" =>
        /\ Len(create_text_by_page(doc)) = Len(doc)
        /\ full_text_file.content = JoinBlocks(doc)

\* the page blocks process_pdf joined, each as one text
OriginalBlocks ==
    [i \in DOMAIN create_text_by_page(doc) |->
       FlatLines(create_text_by_page(doc)[i])]

\* page is block, or block without the one space the delimiter takes
SameButLeadingSpace(page, block) ==
    \/ page = block
    \/ block # <<>> /\ block[1] = SP /\ page = Tail(block)
    \/ block # <<>> /\ block[1] = GAP /\ page = <<SP>> \o Tail(block)

\* C15: page-split round trip.  The pages get_finance_tables splits the
\* full text into are the page blocks process_pdf joined, one for one
\* (but for the space the delimiter ends with), and the text handed to
\* extract_table is one of these blocks, or empty when no page ends with
\* the page reference.
C15_PageSplitRoundTrip ==
    (q_kind = "tables" /\ q_pc \in {"tables", "done"}) =>
        /\ Len(ft_pages) = Len(OriginalBlocks)
        /\ \A i \in DOMAIN ft_pages :
              SameButLeadingSpace(ft_pages[i], OriginalBlocks[i])
        /\ ft_res.called =>
              \/ ft_text = <<>>
              \/ \E i \in DOMAIN OriginalBlocks :
                    SameButLeadingSpace(ft_text, OriginalBlocks[i])

(***************************************************************************)
(* Properties of the artifacts.                                            *)
(***************************************************************************)
\* C11: the index artifact is read-only.  Once pdf_info.json is written,
\* no step of process_pdf and no step of a section, table or metadata
\* query changes or removes it.
C11_IndexReadOnly ==
    [][pdf_info_json.exists => pdf_info_json' = pdf_info_json]_vars

\* process_pdf is done with its files and a metadata query was answered
\* from the index
C11_Witness ==
    /\ pdf_info_json.exists
    /\ pp_pc = "done"
    /\ section_files # <<>>
    /\ full_text_file.exists
    /\ q_pc = "done" /\ q_kind = "metadata" /\ q_status = 200

\* C17: no index, no downstream work.  With no pdf_info.json, process_pdf
\* writes no section file and no full-text file, and no table query gets
\* tables for the document.
C17_NoIndexNoDownstreamWork ==
    ~pdf_info_json.exists =>
        /\ section_files = <<>>
        /\ full_text_file = NoFile
        /\ ft_tables = <<>>

\* the number of steps process_pdf has left at most, for an index of
\* SavedItems entries: two per item that is still to come, then the two
\* of the full text
SavedItems == Len(pdf_info_json.content.index.order)

PpVariant ==
    CASE pp_pc = "start"      -> 2 * SavedItems + 4
      [] pp_pc = "loop"       -> 2 * (SavedItems - pp_k + 1) + 3
      [] pp_pc = "write"      -> 2 * (SavedItems - pp_k + 1) + 2
      [] pp_pc = "fulltext"   -> 2
      [] pp_pc = "write_full" -> 1
      [] OTHER                -> 0

\* one of the steps of process_pdf can be taken: in the loop, the items
\* are used up, or the window of the item cannot be read, or it can and
\* the heading is missing, or it can and the heading is found
PpCanStep ==
    CASE pp_pc \in {"start", "write", "fulltext", "write_full"} -> TRUE
      [] pp_pc = "loop" ->
           IF ~pp_index.bound \/ pp_k > Len(pp_index.index.order) THEN TRUE
           ELSE IF ~PpWindowOk THEN TRUE
           ELSE SectionSlice(PpWindowText, PpItemKey).found \in BOOLEAN
      [] OTHER -> FALSE

\* C18: the full text is persisted independently of the sections.  No
\* step of the section loop writes or alters the full-text file; a
\* process_pdf run that found the index comes to its end (every step
\* takes it closer to the end, and before the end a step can always be
\* taken); and at its end the file holds all page blocks joined by the
\* page break, whatever the section loop did.
C18_FullTextPersisted ==
    /\ [][(pp_pc \in {"start", "loop", "write"})
              => (full_text_file' = full_text_file)]_vars
    /\ [][(pp_pc # "idle") => (PpVariant' < PpVariant)]_vars
    /\ []((pp_pc \notin {"idle", "done"}) => PpCanStep)
    /\ [](pp_pc = "done" =>
            full_text_file = [exists |-> TRUE, content |-> FullText(doc)])

\* the full text is written after a section loop that an error ended
\* before its last item
C18_Witness ==
    /\ pp_pc = "done"
    /\ pp_index.bound
    /\ pp_k <= Len(pp_index.index.order)
    /\ full_text_file = [exists |-> TRUE, content |-> FullText(doc)]

\* C19: bounded wait.  A query whose file never appears answers 404
\* after at most 10 one-second waits, and a section query that answers
\* with content found its file.
C19_BoundedWait ==
    /\ q_status = 404 => q_timeout <= PollLimit
    /\ (q_pc = "done" /\ q_kind = "section" /\ q_status = 200)
          => q_item \in DOMAIN section_files

====
